---- MODULE Spec2Model ----
(***************************************************************************)
(* The book-club suggestion catalog of src/book_club/suggestions.py: the   *)
(* add / edit / remove / prioritize interaction handlers, the menus and    *)
(* forms they open, and the rendered summary.  The entity store            *)
(* (database.Suggestion, database.new_session) and utils.roles are not     *)
(* part of the source file; they follow section 4.1 / 4.2 of the           *)
(* specification.                                                          *)
(***************************************************************************)
EXTENDS Integers, Sequences, FiniteSets, TLC

\* ---------------------------------------------------------------- bounds
MaxEntries == 2

\* ---------------------------------------------------------------- inputs
Users == {"u1", "u2"}
Titles == {"A", "1"}
ChairCandidates == {"u1"}
AddChapterInputs == {"", "0", "x"}
EditNextChInputs == {""}
EditTotalChInputs == {"", "x"}
NotesInputs == {"n"}

\* the inputs of SpecForm: one user, every kind of field value (required =
\* True on a field is a hint to the chat client; on_submit takes any string)
FormUser == "u1"
FormAddChapters == {"", "1", "-1", "x"}
FormAddNotes == {"", "n"}
FormNextCh == {"", "2", "x"}
FormTotalCh == {"", "1", "x"}
FormNotes == {"n", "m"}

None == "None"

\* The model follows one open menu at a time, with the user it was shown to
\* (the messages are ephemeral); showing another one abandons the earlier
\* one.
NoMenu == [kind |-> "none", user |-> None, options |-> <<>>]

\* The open edit forms, oldest first.  Spec follows one open form at a time,
\* SpecForm two; showing one more abandons the oldest.
NoModal == <<>>

\* EditModal.__init__: the form opened for a title holds the entity the
\* lookup returned (self.suggestion, held here by its doc_id)
EditModal_init(u, title, s) == [user |-> u, title |-> title, suggestion |-> s.doc_id]

\* the open forms after one more is shown, when `open` forms are followed
Shown(forms, f, open) ==
    IF Len(forms) < open THEN Append(forms, f) ELSE Append(Tail(forms), f)

\* the open forms after form k is submitted or closed
Closed(forms, k) == SubSeq(forms, 1, k - 1) \o SubSeq(forms, k + 1, Len(forms))

VARIABLES store, next_id, chairs, menu, modal, summary, last

vars == <<store, next_id, chairs, menu, modal, summary, last>>

\* ------------------------------------------------------- pure functions

\* str(): the menu framework hands option values back as strings
str(n) == ToString(n)

\* int(): parses a decimal string, raises ValueError otherwise
IntOf == ("0" :> 0) @@ ("1" :> 1) @@ ("2" :> 2) @@ ("-1" :> (0 - 1))

int_raises(s) == s \notin DOMAIN IntOf

int(s) == IntOf[s]

\* Suggestion.status: the sort key, prioritized entries first
status(s) == IF s.is_prioritized THEN 0 ELSE 1

\* Suggestion.display_title(): the line of the summary for one entry
display_title(s) == s.title

\* sorted(..., key=lambda s: s.status): Python's sort is stable
RECURSIVE InsertByStatus(_, _)
InsertByStatus(x, seq) ==
    IF seq = <<>> THEN <<x>>
    ELSE IF status(Head(seq)) <= status(x)
         THEN <<Head(seq)>> \o InsertByStatus(x, Tail(seq))
         ELSE <<x>> \o seq

RECURSIVE sorted(_)
sorted(seq) ==
    IF seq = <<>> THEN <<>>
    ELSE InsertByStatus(seq[Len(seq)], sorted(SubSeq(seq, 1, Len(seq) - 1)))

\* suggestions_embed() without the sort
suggestions_embed_unsorted(all) == [i \in 1..Len(all) |-> display_title(all[i])]

\* suggestions_embed(), applied to the listing Suggestion.all() returns
suggestions_embed(all) ==
    LET s == sorted(all) IN [i \in 1..Len(s) |-> display_title(s[i])]

\* ------------------------------------------------------ the entity store

\* Suggestion.all(): the listing in the store's order
Suggestion_all(st) == st

\* Suggestion.from_user(uid)
Suggestion_from_user(st, uid) == SelectSeq(Suggestion_all(st), LAMBDA s : s.owner_id = uid)

\* Suggestion.get(title): the positions of the records the lookup may
\* return; empty when it raises NotFound
Suggestion_get(st, title) == {i \in 1..Len(st) : st[i].title = title}

\* Suggestion.new(title, owner, total_ch, notes): the errors it may raise
Suggestion_new_errors(st, title, total_ch, notes) ==
    (IF Suggestion_get(st, title) # {} THEN {"DuplicateTitle"} ELSE {})
    \cup (IF notes = "" \/ total_ch < 0 THEN {"InvalidInput"} ELSE {})

\* Suggestion.new: the store with the new record
Suggestion_new(st, id, title, uid, total_ch, notes) ==
    Append(st, [doc_id |-> id, title |-> title, owner_id |-> uid,
                total_ch |-> total_ch, next_ch |-> 0, notes |-> notes,
                is_prioritized |-> FALSE])

\* the selections a prioritize menu can return
Selections == SUBSET {str(i) : i \in 1..MaxEntries}

\* the handler that ran last, the fields it was submitted (kept for the add
\* form) and the exception it raised ("ok" when none)
Outcome(op, input, outcome) == [op |-> op, input |-> input, outcome |-> outcome]

\* ------------------------------------------------------------- actions

Init ==
    /\ store = <<>>
    /\ next_id = 1
    /\ chairs = {}
    /\ menu = NoMenu
    /\ modal = NoModal
    /\ summary = suggestions_embed(<<>>)
    /\ last = Outcome("Init", None, "ok")

\* AddModal.on_submit that writes over the record of an existing title
AddModal_on_submit_upsert(u, TITLE, CHAPTERS, NOTES) ==
    /\ UNCHANGED <<chairs, menu, modal>>
    /\ IF CHAPTERS # "" /\ int_raises(CHAPTERS)
       THEN /\ last' = Outcome("AddModal", <<TITLE, CHAPTERS, NOTES>>, "ValueError")
            /\ UNCHANGED <<store, next_id, summary>>
       ELSE /\ IF Suggestion_get(store, TITLE) # {}
               THEN /\ store' = [i \in 1..Len(store) |->
                                   IF store[i].title = TITLE
                                   THEN [store[i] EXCEPT !.owner_id = u, !.notes = NOTES]
                                   ELSE store[i]]
                    /\ UNCHANGED next_id
               ELSE /\ Len(store) < MaxEntries
                    /\ store' = Suggestion_new(store, next_id, TITLE, u, 0, NOTES)
                    /\ next_id' = next_id + 1
            /\ summary' = suggestions_embed(Suggestion_all(store'))
            /\ last' = Outcome("AddModal", <<TITLE, CHAPTERS, NOTES>>, "ok")

\* AddModal.on_submit that renders the summary before it stores the entry
AddModal_on_submit_stale(u, TITLE, CHAPTERS, NOTES) ==
    /\ UNCHANGED <<chairs, menu, modal>>
    /\ Suggestion_get(store, TITLE) = {}
    /\ Len(store) < MaxEntries
    /\ store' = Suggestion_new(store, next_id, TITLE, u, 0, NOTES)
    /\ next_id' = next_id + 1
    /\ summary' = suggestions_embed(Suggestion_all(store))
    /\ last' = Outcome("AddModal", <<TITLE, CHAPTERS, NOTES>>, "ok")

\* AddModal.on_submit that takes an unreadable chapter count for none
AddModal_on_submit_lenient(u, TITLE, CHAPTERS, NOTES) ==
    /\ UNCHANGED <<chairs, menu, modal>>
    /\ LET total_ch == IF CHAPTERS # "" /\ ~int_raises(CHAPTERS) THEN int(CHAPTERS) ELSE 0
           errs == Suggestion_new_errors(store, TITLE, total_ch, NOTES)
       IN  IF errs # {}
           THEN /\ \E e \in errs :
                     last' = Outcome("AddModal", <<TITLE, CHAPTERS, NOTES>>, e)
                /\ UNCHANGED <<store, next_id, summary>>
           ELSE /\ Len(store) < MaxEntries
                /\ store' = Suggestion_new(store, next_id, TITLE, u, total_ch, NOTES)
                /\ next_id' = next_id + 1
                /\ summary' = suggestions_embed(Suggestion_all(store'))
                /\ last' = Outcome("AddModal", <<TITLE, CHAPTERS, NOTES>>, "ok")

\* AddModal.on_submit
AddModal_on_submit(u, TITLE, CHAPTERS, NOTES) ==
    /\ UNCHANGED <<chairs, menu, modal>>
    /\ IF CHAPTERS # "" /\ int_raises(CHAPTERS)
       THEN /\ last' = Outcome("AddModal", <<TITLE, CHAPTERS, NOTES>>, "ValueError")
            /\ UNCHANGED <<store, next_id, summary>>
       ELSE LET total_ch == IF CHAPTERS # "" THEN int(CHAPTERS) ELSE 0
                errs == Suggestion_new_errors(store, TITLE, total_ch, NOTES)
            IN  IF errs # {}
                THEN /\ \E e \in errs :
                          last' = Outcome("AddModal", <<TITLE, CHAPTERS, NOTES>>, e)
                     /\ UNCHANGED <<store, next_id, summary>>
                ELSE /\ Len(store) < MaxEntries
                     /\ store' = Suggestion_new(store, next_id, TITLE, u, total_ch, NOTES)
                     /\ next_id' = next_id + 1
                     /\ summary' = suggestions_embed(Suggestion_all(store'))
                     /\ last' = Outcome("AddModal", <<TITLE, CHAPTERS, NOTES>>, "ok")

\* UserSuggestionsDropdown.__init__ that lists every suggestion
UserSuggestionsDropdown_options_all(st, u) ==
    LET all == Suggestion_all(st)
    IN  [i \in 1..Len(all) |-> all[i].title]

\* the option values of a menu built by UserSuggestionsDropdown.__init__
UserSuggestionsDropdown_options(st, u) ==
    LET mine == Suggestion_from_user(st, u)
    IN  [i \in 1..Len(mine) |-> mine[i].title]

\* the option values of a menu built by PrioritizeDropdown.__init__
PrioritizeDropdown_options(st) ==
    LET all == Suggestion_all(st)
    IN  [i \in 1..Len(all) |-> str(all[i].doc_id)]

\* the values already offered by a menu
Values(m) == {m.options[i] : i \in 1..Len(m.options)}

\* EditButton.callback
EditButton_callback(u) ==
    /\ menu' = [kind |-> "edit", user |-> u,
                options |-> UserSuggestionsDropdown_options(store, u)]
    /\ last' = Outcome("EditButton", None, "ok")
    /\ UNCHANGED <<store, next_id, chairs, modal, summary>>

\* EditDropdown.callback, which constructs EditModal(title) and sends it,
\* when `open` forms are followed
EditDropdown_send_modal(u, title, open) ==
    /\ menu.kind = "edit" /\ menu.user = u
    /\ title \in Values(menu)
    /\ IF Suggestion_get(store, title) = {}
       THEN /\ last' = Outcome("EditDropdown", None, "NotFound")
            /\ UNCHANGED modal
       ELSE /\ \E i \in Suggestion_get(store, title) :
                  modal' = Shown(modal, EditModal_init(u, title, store[i]), open)
            /\ last' = Outcome("EditDropdown", None, "ok")
    /\ UNCHANGED <<store, next_id, chairs, menu, summary>>

\* EditDropdown.callback
EditDropdown_callback(u, title) == EditDropdown_send_modal(u, title, 1)

\* session.commit() in EditModal.on_submit: the fields assigned to the held
\* entity (self.suggestion, held here by its doc_id) are written to its record
commit(st, held, title, next_ch, total_ch) ==
    [i \in 1..Len(st) |->
        IF st[i].doc_id = held
        THEN [st[i] EXCEPT !.title = title,
                           !.next_ch = IF next_ch = "" THEN @ ELSE int(next_ch),
                           !.total_ch = IF total_ch = "" THEN @ ELSE int(total_ch)]
        ELSE st[i]]

\* EditModal.on_submit that also writes the flag back as unset
EditModal_on_submit_resets_flag(u, TITLE, NEXT_CH, TOTAL_CH, NOTES) ==
    /\ modal # NoModal
    /\ modal[1].user = u
    /\ modal' = Closed(modal, 1)
    /\ UNCHANGED <<next_id, chairs, menu>>
    /\ store' = [i \in 1..Len(store) |->
                    IF store[i].doc_id = modal[1].suggestion
                    THEN [store[i] EXCEPT !.title = TITLE, !.is_prioritized = FALSE]
                    ELSE store[i]]
    /\ summary' = suggestions_embed(Suggestion_all(store'))
    /\ last' = Outcome("EditModal", None, "ok")

\* EditModal.on_submit of the open form k
EditModal_on_submit_form(k, u, TITLE, NEXT_CH, TOTAL_CH, NOTES) ==
    /\ modal[k].user = u
    /\ modal' = Closed(modal, k)
    /\ UNCHANGED <<next_id, chairs, menu>>
    /\ IF \/ NEXT_CH # "" /\ int_raises(NEXT_CH)
          \/ TOTAL_CH # "" /\ int_raises(TOTAL_CH)
       THEN /\ last' = Outcome("EditModal", None, "ValueError")
            /\ UNCHANGED <<store, summary>>
       ELSE IF \A i \in 1..Len(store) : store[i].doc_id # modal[k].suggestion
       THEN /\ last' = Outcome("EditModal", None, "NotFound")
            /\ UNCHANGED <<store, summary>>
       ELSE /\ store' = commit(store, modal[k].suggestion, TITLE, NEXT_CH, TOTAL_CH)
            /\ summary' = suggestions_embed(Suggestion_all(store'))
            /\ last' = Outcome("EditModal", None, "ok")

\* EditModal.on_submit
EditModal_on_submit(u, TITLE, NEXT_CH, TOTAL_CH, NOTES) ==
    \E k \in 1..Len(modal) : EditModal_on_submit_form(k, u, TITLE, NEXT_CH, TOTAL_CH, NOTES)

\* RemoveButton.callback that removes the user's entries when pressed
RemoveButton_callback_eager(u) ==
    /\ menu' = [kind |-> "remove", user |-> u, options |-> <<>>]
    /\ store' = SelectSeq(store, LAMBDA s : s.owner_id # u)
    /\ last' = Outcome("RemoveButton", None, "ok")
    /\ UNCHANGED <<next_id, chairs, modal, summary>>

\* RemoveButton.callback
RemoveButton_callback(u) ==
    /\ menu' = [kind |-> "remove", user |-> u,
                options |-> UserSuggestionsDropdown_options(store, u)]
    /\ last' = Outcome("RemoveButton", None, "ok")
    /\ UNCHANGED <<store, next_id, chairs, modal, summary>>

\* `entry.remove()` for entry in self.values: the values are strings, and a
\* string has no remove(); TRUE when the loop raises AttributeError
RemoveDropdown_loop_raises(values) == values # {}

\* RemoveDropdown.callback
RemoveDropdown_callback(u, title) ==
    /\ menu.kind = "remove" /\ menu.user = u
    /\ title \in Values(menu)
    /\ IF RemoveDropdown_loop_raises({title})
       THEN /\ last' = Outcome("RemoveDropdown", None, "AttributeError")
            /\ UNCHANGED summary
       ELSE /\ summary' = suggestions_embed(Suggestion_all(store))
            /\ last' = Outcome("RemoveDropdown", None, "ok")
    /\ UNCHANGED <<store, next_id, chairs, menu, modal>>

\* utils.roles.is_lit_chair
is_lit_chair(u) == u \in chairs

\* PrioritizeButton.interaction_check
PrioritizeButton_interaction_check(u) == is_lit_chair(u)

\* PrioritizeDropdown.interaction_check that lets everyone through
PrioritizeDropdown_interaction_check_open(u) == TRUE

\* PrioritizeDropdown.interaction_check
PrioritizeDropdown_interaction_check(u) == is_lit_chair(u)

\* PrioritizeButton.callback, run after its interaction_check
PrioritizeButton_callback(u) ==
    /\ IF ~PrioritizeButton_interaction_check(u)
       THEN /\ last' = Outcome("PrioritizeButton", None, "CheckFailure")
            /\ UNCHANGED menu
       ELSE /\ menu' = [kind |-> "prioritize", user |-> u,
                        options |-> PrioritizeDropdown_options(store)]
            /\ last' = Outcome("PrioritizeButton", None, "ok")
    /\ UNCHANGED <<store, next_id, chairs, modal, summary>>

\* the loop of PrioritizeDropdown.callback over the records get_all() returned
PrioritizeDropdown_effect(st, found) ==
    [i \in 1..Len(st) |->
        IF i \in found THEN [st[i] EXCEPT !.is_prioritized = TRUE] ELSE st[i]]

\* PrioritizeDropdown.callback, run after its interaction_check
PrioritizeDropdown_callback(u, values) ==
    /\ menu.kind = "prioritize" /\ menu.user = u
    /\ values \subseteq Values(menu)
    /\ UNCHANGED <<next_id, chairs, menu, modal>>
    /\ IF ~PrioritizeDropdown_interaction_check(u)
       THEN /\ last' = Outcome("PrioritizeDropdown", None, "CheckFailure")
            /\ UNCHANGED <<store, summary>>
       ELSE IF \E v \in values : Suggestion_get(store, v) = {}
       THEN /\ last' = Outcome("PrioritizeDropdown", None, "NotFound")
            /\ UNCHANGED <<store, summary>>
       ELSE /\ \E f \in [values -> 1..Len(store)] :
                  /\ \A v \in values : f[v] \in Suggestion_get(store, v)
                  /\ store' = PrioritizeDropdown_effect(store, {f[v] : v \in values})
            /\ summary' = suggestions_embed(Suggestion_all(store'))
            /\ last' = Outcome("PrioritizeDropdown", None, "ok")

\* the user lets a menu time out or dismisses it
DismissMenu(u) ==
    /\ menu.user = u
    /\ menu' = NoMenu
    /\ last' = Outcome("DismissMenu", None, "ok")
    /\ UNCHANGED <<store, next_id, chairs, modal, summary>>

\* the user closes the edit form without submitting it
DismissModal(u) ==
    /\ \E k \in 1..Len(modal) :
          /\ modal[k].user = u
          /\ modal' = Closed(modal, k)
    /\ last' = Outcome("DismissModal", None, "ok")
    /\ UNCHANGED <<store, next_id, chairs, menu, summary>>

\* the role provider grants or withdraws the Literature Chair role
SetLitChair(u, held) ==
    /\ (u \in chairs) # held
    /\ chairs' = IF held THEN chairs \cup {u} ELSE chairs \ {u}
    /\ last' = Outcome("SetLitChair", None, "ok")
    /\ UNCHANGED <<store, next_id, menu, modal, summary>>

Next ==
    \/ \E u \in Users, t \in Titles, c \in AddChapterInputs, n \in NotesInputs :
          AddModal_on_submit(u, t, c, n)
    \/ \E u \in Users : EditButton_callback(u)
    \/ \E u \in Users, t \in Titles : EditDropdown_callback(u, t)
    \/ \E u \in Users, t \in Titles, nc \in EditNextChInputs, tc \in EditTotalChInputs,
          n \in NotesInputs : EditModal_on_submit(u, t, nc, tc, n)
    \/ \E u \in Users : RemoveButton_callback(u)
    \/ \E u \in Users, t \in Titles : RemoveDropdown_callback(u, t)
    \/ \E u \in Users : PrioritizeButton_callback(u)
    \/ \E u \in Users, m \in Selections : PrioritizeDropdown_callback(u, m)
    \/ \E u \in Users : DismissMenu(u)
    \/ \E u \in Users : DismissModal(u)
    \/ \E u \in ChairCandidates, held \in BOOLEAN : SetLitChair(u, held)

Spec == Init /\ [][Next]_vars

\* The forms in detail: one user, a catalog one entry short of the bound, two open edit
\* forms, and chapter counts and notes of every kind.
NextForm ==
    \/ \E t \in Titles, c \in FormAddChapters, n \in FormAddNotes :
          /\ AddModal_on_submit(FormUser, t, c, n)
          /\ Len(store') < MaxEntries
    \/ EditButton_callback(FormUser)
    \/ \E t \in Titles : EditDropdown_send_modal(FormUser, t, 2)
    \/ \E t \in Titles, nc \in FormNextCh, tc \in FormTotalCh, n \in FormNotes :
          EditModal_on_submit(FormUser, t, nc, tc, n)
    \/ DismissModal(FormUser)

SpecForm == Init /\ [][NextForm]_vars

\* ------------------------------------------------------------ properties

\* the entries of a store, by doc_id
Ids(st) == {st[i].doc_id : i \in 1..Len(st)}

Entry(st, id) == st[CHOOSE i \in 1..Len(st) : st[i].doc_id = id]

\* the chapter field of an add submission is blank or a non-negative number
ValidChapters(c) == c = "" \/ (~int_raises(c) /\ int(c) >= 0)

\* C1: in every reachable state no two suggestions of the catalog have the
\* same title.
C1_TitleUnique ==
    \A i, j \in 1..Len(store) : i # j => store[i].title # store[j].title

C3_NonChairNeverPrioritizes ==
    [][\A u \in Users :
          (/\ ~is_lit_chair(u)
           /\ last'.op \in {"PrioritizeButton", "PrioritizeDropdown"}
           /\ \/ PrioritizeButton_callback(u)
              \/ \E m \in Selections : PrioritizeDropdown_callback(u, m))
              => (last'.outcome = "CheckFailure" /\ store' = store)]_vars

C3_Witness ==
    /\ last.op = "PrioritizeDropdown"
    /\ last.outcome = "CheckFailure"
    /\ \E i \in 1..Len(store) : store[i].title \in Values(menu)

\* C4: after a chair submits the prioritize menu with selection S,
\* is_prioritized is true for exactly the entries in S and false for every
\* other entry.
C4_PrioritizeOverwrites ==
    [][\A u \in Users, m \in Selections :
          (is_lit_chair(u) /\ PrioritizeDropdown_callback(u, m))
              => \A i \in 1..Len(store') :
                    store'[i].is_prioritized <=> str(store'[i].doc_id) \in m]_vars

\* C5: after an owner submits the remove menu with one of their entries
\* selected, the removal has succeeded: the title is no longer found and is
\* absent from the summary.
C5_RemovalFinal ==
    [][\A u \in Users, t \in Titles :
          RemoveDropdown_callback(u, t)
              => /\ last'.outcome = "ok"
                 /\ Suggestion_get(store', t) = {}
                 /\ \A k \in 1..Len(summary') : summary'[k] # t]_vars

\* C6: the rendered summary lists every catalog entry exactly once, every
\* prioritized entry before every non-prioritized one, ties in the store's
\* listing order; and a step that does not change the catalog, a re-render
\* included, leaves the summary identical.
C6_SummaryOrdered ==
    /\ [](\E p \in Permutations(1..Len(store)) :
            /\ summary = [k \in 1..Len(store) |-> display_title(store[p[k]])]
            /\ \A j, k \in 1..Len(store) :
                  j < k => /\ store[p[k]].is_prioritized => store[p[j]].is_prioritized
                           /\ (store[p[j]].is_prioritized = store[p[k]].is_prioritized)
                                 => p[j] < p[k])
    /\ [][store' = store => summary' = summary]_vars

C6_Witness ==
    /\ Len(store) >= 2
    /\ ~store[1].is_prioritized
    /\ store[2].is_prioritized
    /\ store[1].title # store[2].title
    /\ last.op = "PrioritizeDropdown"
    /\ last.outcome = "ok"

\* the sequence opts lists, in the listing's order, f of exactly the
\* entries of st that satisfy keep
ListsExactly(opts, st, keep(_), f(_)) ==
    \E g \in [1..Len(opts) -> 1..Len(st)] :
        /\ \A j, k \in 1..Len(opts) : j < k => g[j] < g[k]
        /\ {g[k] : k \in 1..Len(opts)} = {i \in 1..Len(st) : keep(st[i])}
        /\ \A k \in 1..Len(opts) : opts[k] = f(st[g[k]])

\* C7: the candidates of the edit menu and of the remove menu opened by user
\* U are exactly the catalog entries owned by U, in the order of the full
\* listing; the candidates of the prioritize menu are the whole catalog.
C7_MenuCandidates ==
    /\ last.op \in {"EditButton", "RemoveButton"}
          => ListsExactly(menu.options, store,
                          LAMBDA e : e.owner_id = menu.user, LAMBDA e : e.title)
    /\ (last.op = "PrioritizeButton" /\ last.outcome = "ok")
          => ListsExactly(menu.options, store,
                          LAMBDA e : TRUE, LAMBDA e : str(e.doc_id))

C7_Witness ==
    /\ last.op = "EditButton"
    /\ Len(menu.options) >= 1
    /\ Len(menu.options) < Len(store)

\* the entry with doc_id id is in st2 as it is in st1, up to the flag
SameContent(st1, st2, id) ==
    /\ id \in Ids(st2)
    /\ Entry(st2, id).title = Entry(st1, id).title
    /\ Entry(st2, id).total_ch = Entry(st1, id).total_ch
    /\ Entry(st2, id).next_ch = Entry(st1, id).next_ch
    /\ Entry(st2, id).notes = Entry(st1, id).notes
    /\ Entry(st2, id).owner_id = Entry(st1, id).owner_id

\* C8: an add, edit or remove interaction of user U changes the title, the
\* chapter fields or the notes of no entry owned by another user, and
\* removes no such entry.
C8_OnlyOwnerMutates ==
    [][\A u \in Users :
          (\/ \E t \in Titles, c \in AddChapterInputs, n \in NotesInputs :
                 AddModal_on_submit(u, t, c, n)
           \/ EditButton_callback(u)
           \/ \E t \in Titles : EditDropdown_callback(u, t)
           \/ \E t \in Titles, nc \in EditNextChInputs, tc \in EditTotalChInputs,
                 n \in NotesInputs : EditModal_on_submit(u, t, nc, tc, n)
           \/ RemoveButton_callback(u)
           \/ \E t \in Titles : RemoveDropdown_callback(u, t))
              => \A id \in Ids(store) :
                    Entry(store, id).owner_id # u => SameContent(store, store', id)]_vars

\* C9: when an add, edit, remove or prioritize submission has succeeded, the
\* summary it rendered is the summary of the catalog after the mutation.
C9_RenderAfterMutation ==
    (/\ last.op \in {"AddModal", "EditModal", "RemoveDropdown", "PrioritizeDropdown"}
     /\ last.outcome = "ok")
        => summary = suggestions_embed(Suggestion_all(store))

C9_Witness ==
    /\ last.op = "AddModal"
    /\ last.outcome = "ok"
    /\ Len(store) >= 2
    /\ store[1].is_prioritized

\* C10: pressing the edit, remove or prioritize button, choosing the entry
\* to edit (which shows the form), and abandoning a menu or the form change
\* neither the catalog nor the summary.
C10_NoEffectBeforeSubmission ==
    [][last'.op \in {"EditButton", "RemoveButton", "PrioritizeButton",
                     "EditDropdown", "DismissMenu", "DismissModal"}
          => (store' = store /\ summary' = summary)]_vars

C10_Witness ==
    /\ last.op = "DismissModal"
    /\ Len(store) >= 1
    /\ menu.kind = "edit"
\* C11: a newly added entry is not prioritized, and the flag of an entry
\* changes only in a prioritize submission that passed the authorization
\* check: add, edit and remove submissions change no entry's flag.
C11_FlagOnlyByPrioritize ==
    [][store' # store
          => /\ \A id \in Ids(store') \ Ids(store) : ~Entry(store', id).is_prioritized
             /\ (\E id \in Ids(store) \cap Ids(store') :
                    Entry(store', id).is_prioritized # Entry(store, id).is_prioritized)
                   => /\ last'.op = "PrioritizeDropdown"
                      /\ last'.outcome = "ok"
                      /\ is_lit_chair(menu.user)]_vars

C11_Witness ==
    /\ last.op = "EditModal"
    /\ last.outcome = "ok"
    /\ Len(store) >= 2
    /\ store[1].is_prioritized
    /\ ~store[2].is_prioritized

\* C12: the owner of an entry is the user whose add submission created it,
\* and no later step, a renaming edit and a prioritization included,
\* changes it.
C12_OwnerImmutable ==
    [][store' # store
          => /\ \A id \in Ids(store) \cap Ids(store') :
                   Entry(store', id).owner_id = Entry(store, id).owner_id
             /\ (last'.op = "AddModal" /\ last'.outcome = "ok")
                   => \A u \in Users :
                         AddModal_on_submit(u, last'.input[1], last'.input[2], last'.input[3])
                            => \A id \in Ids(store') \ Ids(store) :
                                  Entry(store', id).owner_id = u]_vars

C12_Witness ==
    /\ last.op = "EditModal"
    /\ last.outcome = "ok"
    /\ Len(store) >= 2
    /\ store[1].title = store[2].title
    /\ store[1].owner_id # store[2].owner_id

\* C14: when one of the values of a chair's prioritize submission is not
\* found, the failure is confined to that value: the entries the other
\* values name are prioritized and the summary is rendered again.
C14_NotFoundPerItem ==
    [][\A m \in Selections :
          (/\ last'.op = "PrioritizeDropdown"
           /\ is_lit_chair(menu.user)
           /\ PrioritizeDropdown_callback(menu.user, m))
              => /\ \A v \in m : Suggestion_get(store, v) # {}
                       => \E i \in Suggestion_get(store, v) : store'[i].is_prioritized
                 /\ summary' = suggestions_embed(Suggestion_all(store'))]_vars

\* C19: a prioritize menu submitted by a user who is no longer a chair,
\* although the menu was opened while the user was one, is rejected and no
\* flag changes.
C19_CheckedAtSubmission ==
    [][(/\ last'.op = "PrioritizeDropdown"
        /\ menu.kind = "prioritize"
        /\ ~is_lit_chair(menu.user))
          => /\ last'.outcome = "CheckFailure"
             /\ \A i \in 1..Len(store) :
                   /\ i <= Len(store')
                   /\ store'[i].is_prioritized = store[i].is_prioritized]_vars

C19_Witness ==
    /\ last.op = "PrioritizeDropdown"
    /\ last.outcome = "CheckFailure"
    /\ menu.kind = "prioritize"
    /\ menu.user \notin chairs
    /\ \E i \in 1..Len(store) : store[i].title \in Values(menu) /\ ~store[i].is_prioritized

\* C20: when a chair submits the prioritize menu and every selected option
\* was built from an entry that still exists, the submission succeeds and
\* sets the flag on exactly the entries the selected options were built
\* from.
C20_OptionResolvesToItsEntry ==
    [][\A m \in Selections :
          (/\ last'.op = "PrioritizeDropdown"
           /\ is_lit_chair(menu.user)
           /\ PrioritizeDropdown_callback(menu.user, m)
           /\ \A v \in m : \E id \in Ids(store) : str(id) = v)
              => /\ last'.outcome = "ok"
                 /\ \A i \in 1..Len(store) :
                       store'[i].is_prioritized
                          <=> (store[i].is_prioritized \/ str(store[i].doc_id) \in m)]_vars
\* the chapter field of an add submission is a number below zero
NegativeChapters(c) == c # "" /\ ~int_raises(c) /\ int(c) < 0

\* the chapter field of an add submission is not a number
NonNumericChapters(c) == c # "" /\ int_raises(c)

Carries(st, id, TITLE, NEXT_CH, TOTAL_CH, NOTES) ==
    /\ id \in Ids(st)
    /\ Entry(st, id).title = TITLE
    /\ NEXT_CH # "" => Entry(st, id).next_ch = int(NEXT_CH)
    /\ TOTAL_CH # "" => Entry(st, id).total_ch = int(TOTAL_CH)
    /\ Entry(st, id).notes = NOTES

\* C15: an edit submission with a field that is not valid changes no field
\* of the entry, the title included; one that succeeds makes all the
\* submitted changes visible together.
C15_EditAllOrNothing ==
    [][last'.op = "EditModal"
          => \A k \in 1..Len(modal), t \in Titles, nc \in FormNextCh,
                tc \in FormTotalCh, n \in FormNotes :
                EditModal_on_submit_form(k, FormUser, t, nc, tc, n)
                   => IF NonNumericChapters(nc) \/ NonNumericChapters(tc)
                      THEN store' = store
                      ELSE Carries(store', modal[k].suggestion, t, nc, tc, n)]_vars

\* C16: an edit submission acts on the store as it is when the form is
\* submitted: when no entry bears the title the form was opened for any
\* more, it fails with NotFound and changes nothing.
C16_SubmissionUsesStoreAtSubmission ==
    [][last'.op = "EditModal"
          => \A k \in 1..Len(modal), t \in Titles, nc \in FormNextCh,
                tc \in FormTotalCh, n \in FormNotes :
                (/\ EditModal_on_submit_form(k, FormUser, t, nc, tc, n)
                 /\ ~NonNumericChapters(nc) /\ ~NonNumericChapters(tc)
                 /\ Suggestion_get(store, modal[k].title) = {})
                   => (last'.outcome = "NotFound" /\ store' = store)]_vars

\* C17: in every reachable state an entry with total_ch > 0 has
\* next_ch <= total_ch.
C17_NextWithinTotal ==
    \A i \in 1..Len(store) :
        store[i].total_ch > 0 => store[i].next_ch <= store[i].total_ch

\* C18: after an edit submission that succeeded, the entry carries the
\* submitted title and notes, and the submitted chapter numbers where the
\* field was not blank.
C18_EditStoresSubmittedValues ==
    [][(last'.op = "EditModal" /\ last'.outcome = "ok")
          => \A k \in 1..Len(modal), t \in Titles, nc \in FormNextCh,
                tc \in FormTotalCh, n \in FormNotes :
                EditModal_on_submit_form(k, FormUser, t, nc, tc, n)
                   => Carries(store', modal[k].suggestion, t, nc, tc, n)]_vars

====
